---- MODULE Spec2Model ----
(***************************************************************************)
(* GitHubAgent (src/unnamed/part_002): the batched upload engine,          *)
(* uploadFilesToRepository, with its retry wrapper and its rate limiter,   *)
(* and the run that calls it, createRepositoryAndUploadFiles: validation,  *)
(* repository creation, readiness polling, the uploads and the README.     *)
(*                                                                         *)
(* One action is the code one flow runs between two suspensions on a timer *)
(* (delay) or on the network (fetch).  JavaScript runs such a stretch to   *)
(* its end before any timer or response callback of another flow runs, so  *)
(* the interleavings of the actions are the interleavings of the program.  *)
(*                                                                         *)
(* Time.  The code reads the clock only as a difference: Date.now() -      *)
(* lastRequestTime in enforceRateLimit, and setTimeout delays.  The model  *)
(* keeps those differences: timeSinceLastRequest is Date.now() -           *)
(* lastRequestTime (kept up to rateLimitDelay, beyond which the code does  *)
(* not tell values apart) and every pending timer holds the milliseconds   *)
(* it still has to run.  Tick lets tickMs milliseconds pass: 1 where the    *)
(* delays are a few ms, the poll interval in a run, whose delays are all   *)
(* multiples of it.  A timer's callback may run late (Tick stays enabled   *)
(* when a timer is due), never early.                                      *)
(*                                                                         *)
(* Three specifications call uploadFilesToRepository on its own and differ *)
(* in the configurations they start from: Spec (lists and batch sizes up   *)
(* to the bounds, batches uploaded concurrently), SpecRetry (retry counts  *)
(* and delays up to the bounds, files uploaded one after the other) and    *)
(* SpecLists (the pure filtering, sorting and batching of the call on      *)
(* longer lists).  SpecRun is a whole run of                               *)
(* createRepositoryAndUploadFiles with two files.                          *)
(* SpecRunFair is SpecRun with every enabled step eventually taken.       *)
(*                                                                         *)
(* ZipProcessor (src/src/unzip-code.js) and the part of                    *)
(* WorkflowController.processWorkflow (src/src/index.js) that calls it:    *)
(* validateFile, generateFolderName, extractAllFiles, buildFileStructure   *)
(* and generateStatistics as operators, processZipFile as the flow that    *)
(* suspends on loadAsync and on each zipEntry.async.  A string is the      *)
(* sequence of its characters, a path the sequence of its parts.  SpecNames *)
(* starts from every archive name up to the bound, SpecZip from every list *)
(* of entries up to the bound.                                             *)
(* SpecWorkflow is processWorkflow to its return: the extraction, then the *)
(* run of createRepositoryAndUploadFiles on the records it extracted.      *)
(***************************************************************************)
EXTENDS Integers, Sequences, FiniteSets, TLC

\* ------------------------------------------------------------------ bounds
MaxFiles == 3          \* longest file list uploaded with concurrent batches
MaxBatchSize == 2      \* largest configured batchSize
MaxMaxRetries == 3     \* largest configured maxRetries
MaxRateLimitDelay == 2 \* largest configured rateLimitDelay (ms)
MaxRetryDelay == 2     \* largest configured retryDelay (ms)
MaxListLen == 5        \* longest list given to filterAndSortFiles, createBatches
MaxSliceSize == 4      \* largest batch size given to createBatches
MaxPrefixLen == 3      \* longest archive name, its ending not counted
MaxEntries == 3        \* most entries of an archive
MaxArchiveSize == 2    \* the configured maxFileSize of ZipProcessor (bytes)

\* --------------------------------------------------- the program's constants
MaxWaitTime == 30000   \* waitForRepositoryReady: maxWaitTime (ms)
PollInterval == 1000   \* waitForRepositoryReady: the delay after a 404 (ms)
MaxNameLength == 100   \* validateInput: the longest repository name

\* ------------------------------------------------------------- file records
\* A FileRecord as the agent reads it: path (unique), directory and name (as
\* their rank in localeCompare order), size, and ext, the value of
\* name.substring(name.lastIndexOf('.')).toLowerCase().
File(p, d, n, s, e) == [path |-> p, directory |-> d, name |-> n, size |-> s, ext |-> e]

\* The caller's files, deliberately not in (directory, name) order.
Catalog ==
    << File(1, 2, 1, 3, ".js"),
       File(2, 1, 2, 1, ".md"),
       File(3, 1, 1, 2, ".js"),
       File(4, 2, 2, 1, ".md"),
       File(5, 1, 3, 3, ".js"),
       File(6, 3, 1, 2, ".md"),
       File(7, 2, 3, 1, ".js") >>

\* options.allowedExtensions when the caller gives none
Undefined == {"undefined"}

\* -------------------------------------------------------- pure functions
Min(a, b) == IF a < b THEN a ELSE b

RECURSIVE Pow2(_)
Pow2(n) == IF n <= 0 THEN 1 ELSE 2 * Pow2(n - 1)

\* the comparator of filterAndSortFiles: negative, zero or positive
compareFiles(a, b) ==
    IF a.directory # b.directory
    THEN a.directory - b.directory
    ELSE a.name - b.name

RECURSIVE InsertSorted(_, _)
\* x goes after every element that does not compare greater (stable)
InsertSorted(s, x) ==
    IF s = <<>> THEN <<x>>
    ELSE IF compareFiles(Head(s), x) <= 0
         THEN <<Head(s)>> \o InsertSorted(Tail(s), x)
         ELSE <<x>> \o s

RECURSIVE SortFiles(_)
\* Array.prototype.sort with compareFiles: a stable sort
SortFiles(s) ==
    IF s = <<>> THEN <<>>
    ELSE InsertSorted(SortFiles(SubSeq(s, 1, Len(s) - 1)), s[Len(s)])

sizeFilterOn(opts) == opts.maxFileSize # 0
extFilterOn(opts) == opts.allowedExtensions # Undefined

\* filterAndSortFiles: the list it returns
filterAndSortFiles(fs, opts) ==
    LET bySize == IF sizeFilterOn(opts)
                  THEN SelectSeq(fs, LAMBDA f : f.size <= opts.maxFileSize)
                  ELSE fs
        byExt  == IF extFilterOn(opts)
                  THEN SelectSeq(bySize, LAMBDA f : f.ext \in opts.allowedExtensions)
                  ELSE bySize
    IN SortFiles(byExt)

\* filterAndSortFiles sorts in place: with no filter given, `filtered` is the
\* caller's array itself
filesAfterSort(fs, opts) ==
    IF sizeFilterOn(opts) \/ extFilterOn(opts) THEN fs ELSE SortFiles(fs)

RECURSIVE batchesFrom(_, _, _)
\* the loop of createBatches from index i (0-based): slice(i, i + batchSize)
batchesFrom(fs, size, i) ==
    IF i < Len(fs)
    THEN <<SubSeq(fs, i + 1, Min(i + size, Len(fs)))>> \o batchesFrom(fs, size, i + size)
    ELSE <<>>

\* the loop started one element late
createBatchesFromOne(fs, size) == batchesFrom(fs, size, 1)

\* lines 521-527
createBatches(fs, size) == batchesFrom(fs, size, 0)

RECURSIVE Flatten(_)
Flatten(ss) == IF ss = <<>> THEN <<>> ELSE Head(ss) \o Flatten(Tail(ss))

\* ------------------------------------------------------------------ state
VARIABLES
    maxRetries, retryDelay, batchSize, rateLimitDelay,  \* the agent's config
    timeSinceLastRequest, \* Date.now() - this.lastRequestTime, up to rateLimitDelay
    options,              \* the options of the call
    files,                \* the caller's array
    filteredFiles, batches, i, results,  \* locals of uploadFilesToRepository
    upc,                  \* where uploadFilesToRepository stands
    pauseTimer,           \* ms left of the delay between two batches
    task,                 \* path -> the uploadSingleFileWithRetry call for it
    fetched,              \* history: the paths a fetch was issued for
    lastGap,              \* history: ms between the last two completed
                          \* enforceRateLimit calls, up to rateLimitDelay
    overtaken,            \* history: in the batch last started, a file settled
                          \* while a file before it in the batch had not
    tickMs,               \* the ms one Tick lets pass; every delay is a multiple
    phase,                \* the phase of createRepositoryAndUploadFiles
    rpc,                  \* where createRepositoryAndUploadFiles stands
    runTimer,             \* ms left of the delay it sleeps in
    elapsed,              \* Date.now() - startTime in waitForRepositoryReady,
                          \* up to maxWaitTime
    folderName,           \* the repository name the run is called with
    readme,               \* the uploadSingleFile call of createReadmeFile
    requests,             \* history: the requests and waits of the run
    runResult,            \* what createRepositoryAndUploadFiles returned
    archive,              \* the archive given: who it is given to, its name,
                          \* its byte length and the entries of zip.files
    zpc,                  \* where processWorkflow / processZipFile stands
    entryIndex,           \* extractAllFiles: the entry being decoded
    extractedFiles,       \* extractAllFiles: the records pushed so far
    zipResult,            \* what processZipFile returned or threw
    zipCalls,             \* history: loadAsync calls, and the decode calls
                          \* with their outcomes
    workflowResult        \* what processWorkflow returned

config == <<maxRetries, retryDelay, batchSize, rateLimitDelay, tickMs>>
run == <<phase, rpc, runTimer, elapsed, folderName, readme, requests, runResult>>
vars == <<maxRetries, retryDelay, batchSize, rateLimitDelay, timeSinceLastRequest,
          options, files, filteredFiles, batches, i, results, upc, pauseTimer,
          task, fetched, lastGap, overtaken, tickMs, phase, rpc, runTimer,
          elapsed, folderName, readme, requests, runResult, archive, zpc,
          entryIndex, extractedFiles, zipResult, zipCalls, workflowResult>>
zipVars == <<archive, zpc, entryIndex, extractedFiles, zipResult, zipCalls,
             workflowResult>>

\* an Error as makeGitHubApiCall throws it (lines 558-564): error.name,
\* error.status, and (history) the attempt whose request raised it
ApiError(status, attempt) ==
    [name |-> "Error", status |-> status, attempt |-> attempt]

NoError == [name |-> "undefined", status |-> 0, attempt |-> 0]

\* statuses of a response that is not ok: authorization, rate limit
ErrorStatuses == {401, 429}
GetStatuses == {200, 404} \cup ErrorStatuses
PutStatuses == {201} \cup ErrorStatuses

\* a call of uploadSingleFileWithRetry not yet made; lookup is the status
\* the GET of the running attempt (of the last one, in a call that has
\* rejected) was answered with, 0 when it was not answered or answered with
\* an error that was thrown
NewTask ==
    [pc |-> "new", attempt |-> 0, timer |-> 0, sha |-> FALSE, lookup |-> 0,
     lastError |-> NoError, reason |-> NoError, delays |-> <<>>]

Paths(fs) == {fs[k].path : k \in 1..Len(fs)}

OptionSets ==
    { [maxFileSize |-> 0, allowedExtensions |-> Undefined, checkExisting |-> TRUE],
      [maxFileSize |-> 0, allowedExtensions |-> Undefined, checkExisting |-> FALSE],
      [maxFileSize |-> 2, allowedExtensions |-> Undefined, checkExisting |-> TRUE],
      [maxFileSize |-> 0, allowedExtensions |-> {".js"}, checkExisting |-> FALSE] }

\* the run as long as createRepositoryAndUploadFiles has not returned
NoResult == [success |-> FALSE, error |-> "undefined", status |-> 0, uploadResults |-> <<>>]

NoRequests == [post |-> 0, probe |-> 0, notFound |-> 0, pollWaits |-> 0,
               waitedMs |-> 0, readmeGet |-> 0, readmePut |-> 0, lastProbe |-> 0]

\* The agent as constructed (lines 15-26, lastRequestTime = 0 lies far in the
\* past) and the files and options of one call.
InitAgent(retries, retryDelays, limitDelays, sizes, lengths) ==
    /\ maxRetries \in retries
    /\ retryDelay \in retryDelays
    /\ batchSize \in sizes
    /\ rateLimitDelay \in limitDelays
    /\ timeSinceLastRequest = rateLimitDelay
    /\ \E n \in lengths : files = SubSeq(Catalog, 1, n)
    /\ filteredFiles = <<>>
    /\ batches = <<>>
    /\ i = 0
    /\ results = [successCount |-> 0, failedCount |-> 0, skippedCount |-> 0,
                  details |-> <<>>, totalSize |-> 0]
    /\ pauseTimer = 0
    /\ task = <<>>
    /\ fetched = {}
    /\ lastGap = rateLimitDelay
    /\ overtaken = FALSE
    /\ runTimer = 0
    /\ elapsed = 0
    /\ readme = NewTask
    /\ requests = NoRequests
    /\ runResult = NoResult

\* no archive is being processed
NoArchive ==
    [caller |-> "none", input |-> "none", name |-> <<>>, size |-> 0, entries |-> <<>>]

NoZipResult == [success |-> FALSE, error |-> "undefined", folderName |-> <<>>,
                fileCount |-> 0, fileStructure |-> <<>>, statistics |-> <<>>]

NoZipCalls == [load |-> 0, decode |-> <<>>]

\* processWorkflow has not returned
NoWorkflowResult == [returned |-> FALSE, success |-> FALSE, error |-> "undefined"]

ZipIdle ==
    /\ archive = NoArchive
    /\ zpc = "none"
    /\ entryIndex = 0
    /\ extractedFiles = <<>>
    /\ zipResult = NoZipResult
    /\ zipCalls = NoZipCalls
    /\ workflowResult = NoWorkflowResult

\* uploadFilesToRepository called on its own (as in part_000, line 161), time
\* counted in ms
InitWith(retries, retryDelays, limitDelays, sizes, lengths) ==
    /\ InitAgent(retries, retryDelays, limitDelays, sizes, lengths)
    /\ ZipIdle
    /\ options \in OptionSets
    /\ tickMs = 1
    /\ upc = "call"
    /\ phase = "None"
    /\ rpc = "none"
    /\ folderName = [length |-> 0, chars |-> {}]

\* concurrent batches: every list length and batch size, one retry at most
Init == InitWith({1, 2}, {1}, {1}, 1..MaxBatchSize, 0..MaxFiles)

\* the retry loop and the waits: every retry count and delay, two files
\* uploaded one after the other
InitRetry == InitWith(1..MaxMaxRetries, 1..MaxRetryDelay, 1..MaxRateLimitDelay, {1}, {2})

\* the pure steps of the call alone: every list length and batch size
InitLists == InitWith({1}, {1}, {1}, 1..MaxSliceSize, 0..MaxListLen)

\* --------------------------------------------------------- the rate limiter
\* enforceRateLimit: the ms it passes to delay, 0 when it does not wait
rateLimitWait(since) ==
    IF since < rateLimitDelay THEN rateLimitDelay - since ELSE 0

\* the request uploadSingleFile makes after its own enforceRateLimit
firstRequest == IF options.checkExisting THEN "get" ELSE "put"

SleepPc(site) ==
    CASE site = "upload" -> "limitUpload"
      [] site = "get" -> "limitGet"
      [] site = "put" -> "limitPut"

\* the fetch going out with no enforceRateLimit before it
ArriveNoLimit(t, site, since, gap) ==
    [task |-> [t EXCEPT !.pc = IF site = "put" \/ (site = "upload" /\ ~options.checkExisting)
                                THEN "fetchPut" ELSE "fetchGet"],
     since |-> since, gap |-> gap]

RECURSIVE Arrive(_, _, _, _)
RECURSIVE Acquired(_, _, _)
\* The flow t calls enforceRateLimit at `site` (uploadSingleFile itself, or
\* makeGitHubApiCall for the GET or the PUT), `since` ms after the last
\* completed call, and runs on to its next suspension.  The result is the
\* flow, the new timeSinceLastRequest and the new lastGap.
Arrive(t, site, since, gap) ==
    IF rateLimitWait(since) > 0
    THEN [task |-> [t EXCEPT !.pc = SleepPc(site), !.timer = rateLimitWait(since)],
          since |-> since, gap |-> gap]
    ELSE Acquired(t, site, since)

\* enforceRateLimit sets lastRequestTime = Date.now() and returns to its caller
Acquired(t, site, since) ==
    CASE site = "upload" -> Arrive(t, firstRequest, 0, since)
      [] site = "get" -> [task |-> [t EXCEPT !.pc = "fetchGet"], since |-> 0, gap |-> since]
      [] site = "put" -> [task |-> [t EXCEPT !.pc = "fetchPut"], since |-> 0, gap |-> since]

\* the fetch, if any, that the flow of path p has just issued
Issued(p, t) ==
    IF t.pc \in {"fetchGet", "fetchPut"} THEN {p} ELSE {}

\* the flow of path p has run to its next suspension with result r
Proceed(p, r) ==
    /\ task' = [task EXCEPT ![p] = r.task]
    /\ timeSinceLastRequest' = r.since
    /\ lastGap' = r.gap
    /\ fetched' = fetched \cup Issued(p, r.task)

\* ------------------------------------------------- uploadFilesToRepository
\* lines 181-201 up to the first processBatch
UploadFilesToRepository ==
    /\ upc = "call"
    /\ filteredFiles' = filterAndSortFiles(files, options)
    /\ files' = filesAfterSort(files, options)
    /\ batches' = createBatches(filteredFiles', batchSize)
    /\ results' = [successCount |-> 0, failedCount |-> 0, skippedCount |-> 0,
                   details |-> <<>>, totalSize |-> 0]
    /\ i' = 0
    /\ task' = [p \in Paths(filteredFiles') |-> NewTask]
    /\ upc' = IF Len(batches') > 0 THEN "map" ELSE "return"
    /\ UNCHANGED <<config, zipVars, run, timeSinceLastRequest, options, pauseTimer, fetched,
                   lastGap, overtaken>>

\* processBatch, batch.map: the next file's uploadSingleFileWithRetry is called
\* and runs to its first suspension; nothing else runs until map has returned
StartUpload ==
    /\ upc = "map"
    /\ LET batch == batches[i + 1]
           j == CHOOSE k \in 1..Len(batch) :
                    /\ task[batch[k].path].pc = "new"
                    /\ \A m \in 1..(k - 1) : task[batch[m].path].pc # "new"
           p == batch[j].path
       IN /\ Proceed(p, Arrive([task[p] EXCEPT !.attempt = 1], "upload",
                               timeSinceLastRequest, lastGap))
          /\ upc' = IF j = Len(batch) THEN "join" ELSE "map"
          /\ overtaken' = IF j = 1 THEN FALSE ELSE overtaken
    /\ UNCHANGED <<config, zipVars, run, options, files, filteredFiles, batches, i, results, pauseTimer>>

Flows == DOMAIN task

\* the promise without its .catch
wrappedNoCatch(t) ==
    CASE t.pc = "fulfilled" -> [state |-> "fulfilled", success |-> TRUE, error |-> NoError]
      [] t.pc = "rejected" -> [state |-> "rejected", success |-> FALSE, error |-> t.reason]
      [] OTHER -> [state |-> "pending", success |-> FALSE, error |-> NoError]

\* lines 222-226: the promise processBatch makes of a flow; .catch turns a
\* rejection into a value
wrapped(t) ==
    CASE t.pc = "fulfilled" -> [state |-> "fulfilled", success |-> TRUE, error |-> NoError]
      [] t.pc = "rejected" -> [state |-> "fulfilled", success |-> FALSE, error |-> t.reason]
      [] OTHER -> [state |-> "pending", success |-> FALSE, error |-> NoError]

\* Promise.race in place of Promise.all: resolved with the first promise
firstResolved(ws) == \E k \in DOMAIN ws : ws[k].state = "fulfilled"

\* the results recorded with no promise awaited
noneAwaited(ws) == TRUE

\* line 228, Promise.all: resolved once every promise is fulfilled
allResolved(ws) == \A k \in DOMAIN ws : ws[k].state = "fulfilled"

\* line 228, Promise.all: rejected as soon as one promise is
anyRejected(ws) == \E k \in DOMAIN ws : ws[k].state = "rejected"

\* the forEach counting every entry as a success
RecordSuccess(res, file, w) ==
    [res EXCEPT !.successCount = @ + 1,
                !.totalSize = @ + file.size,
                !.details = Append(@, [path |-> file.path, status |-> "success",
                                       size |-> file.size])]

\* the size of a failed file added to totalSize as well
RecordSizeAlways(res, file, w) ==
    IF w.success
    THEN [res EXCEPT !.successCount = @ + 1,
                     !.totalSize = @ + file.size,
                     !.details = Append(@, [path |-> file.path, status |-> "success",
                                            size |-> file.size])]
    ELSE [res EXCEPT !.failedCount = @ + 1,
                     !.totalSize = @ + file.size,
                     !.details = Append(@, [path |-> file.path, status |-> "failed",
                                            error |-> w.error.status])]

\* lines 230-249: the forEach of processBatch over one entry of batchResults
Record(res, file, w) ==
    IF w.success
    THEN [res EXCEPT !.successCount = @ + 1,
                     !.totalSize = @ + file.size,
                     !.details = Append(@, [path |-> file.path, status |-> "success",
                                            size |-> file.size])]
    ELSE [res EXCEPT !.failedCount = @ + 1,
                     !.details = Append(@, [path |-> file.path, status |-> "failed",
                                            error |-> w.error.status])]

RECURSIVE RecordAllBackwards(_, _, _, _)
\* the entries of batchResults taken last to first
RecordAllBackwards(res, batch, ws, k) ==
    IF k > Len(batch) THEN res
    ELSE RecordAllBackwards(Record(res, batch[Len(batch) + 1 - k], ws[Len(batch) + 1 - k]),
                            batch, ws, k + 1)

RECURSIVE RecordAll(_, _, _, _)
\* lines 228-230: batchResults is in the order of batch (Promise.all keeps
\* the order of its argument) and forEach goes through it first to last
RecordAll(res, batch, ws, k) ==
    IF k > Len(batch) THEN res
    ELSE RecordAll(Record(res, batch[k], ws[k]), batch, ws, k + 1)

\* no delay between the batches
pauseAfterNone(k, n) == FALSE

\* line 204: batch k (0-based) of n is followed by the delay
pauseAfter(k, n) == k < n - 1

\* a flow whose outcome processBatch has recorded: its locals are gone
Settled(t) == [NewTask EXCEPT !.pc = t.pc]

\* Promise.all has settled: processBatch records the batch and returns, and
\* uploadFilesToRepository pauses before the next batch or returns (lines
\* 201-210); a rejection would leave both functions at once
JoinBatch ==
    /\ upc = "join"
    /\ LET batch == batches[i + 1]
           ws == [k \in 1..Len(batch) |-> wrapped(task[batch[k].path])]
       IN /\ allResolved(ws) \/ anyRejected(ws)
          /\ IF anyRejected(ws)
             THEN /\ upc' = "throw"
                  /\ UNCHANGED <<results, task, pauseTimer, i>>
             ELSE /\ results' = RecordAll(results, batch, ws, 1)
                  /\ task' = [p \in Flows |-> IF p \in Paths(batch)
                                               THEN Settled(task[p]) ELSE task[p]]
                  /\ IF pauseAfter(i, Len(batches))
                     THEN /\ pauseTimer' = rateLimitDelay
                          /\ upc' = "pause"
                          /\ i' = i
                     ELSE /\ pauseTimer' = pauseTimer
                          /\ upc' = "return"
                          /\ i' = i + 1
    /\ UNCHANGED <<config, zipVars, run, timeSinceLastRequest, options, files, filteredFiles,
                   batches, fetched, lastGap, overtaken>>

\* the delay between two batches is over: the loop goes to the next batch
NextBatch ==
    /\ upc = "pause"
    /\ pauseTimer = 0
    /\ i' = i + 1
    /\ upc' = "map"
    /\ UNCHANGED <<config, zipVars, run, timeSinceLastRequest, options, files, filteredFiles,
                   batches, results, pauseTimer, task, fetched, lastGap, overtaken>>

\* ------------------------------------------------ uploadSingleFileWithRetry
\* the loop bound off by one: one attempt too many
retryAfterInclusive(attempt) == attempt <= maxRetries

\* line 263, 269: the loop goes on after a failed attempt
retryAfter(attempt) == attempt < maxRetries

\* the exponent off by one
backoffDelayFromTwo(attempt) == retryDelay * Pow2(attempt)

\* line 270: the delay before the next attempt
backoffDelay(attempt) == retryDelay * Pow2(attempt - 1)

\* line 279: what the call rejects with once the loop is over
thrownError(lastError) == lastError

\* the fileData of the failed attempt kept for the next one
keptFileData(t) == t

\* lines 297-301: fileData is a local of uploadSingleFile, gone when the call
\* has thrown; the next attempt builds its own, with no sha
freshFileData(t) == [t EXCEPT !.sha = FALSE, !.lookup = 0]

\* the delay waited after the last attempt as well
CaughtDelayingLast(t, error) ==
    IF retryAfter(t.attempt)
    THEN [freshFileData(t) EXCEPT !.pc = "backoff", !.lastError = error,
                   !.timer = backoffDelay(t.attempt),
                   !.delays = Append(@, backoffDelay(t.attempt))]
    ELSE [t EXCEPT !.pc = "rejected", !.lastError = error, !.sha = FALSE,
                   !.delays = Append(@, backoffDelay(t.attempt)),
                   !.reason = thrownError(error)]

\* the catch block: attempt t.attempt has thrown error
Caught(t, error) ==
    IF retryAfter(t.attempt)
    THEN [freshFileData(t) EXCEPT !.pc = "backoff", !.lastError = error,
                   !.timer = backoffDelay(t.attempt),
                   !.delays = Append(@, backoffDelay(t.attempt))]
    ELSE [t EXCEPT !.pc = "rejected", !.lastError = error, !.sha = FALSE,
                   !.reason = thrownError(error)]

Running == upc = "join"

\* the flow of path p settles as t while a file before it in the running
\* batch has not settled
Overtakes(p, t) ==
    /\ t.pc \in {"fulfilled", "rejected"}
    /\ \E k, m \in 1..Len(batches[i + 1]) :
          /\ m < k
          /\ batches[i + 1][k].path = p
          /\ task[batches[i + 1][m].path].pc \notin {"fulfilled", "rejected"}

\* the timer of enforceRateLimit fires: it sets lastRequestTime and returns
WakeRateLimit(p) ==
    /\ Running
    /\ task[p].pc \in {"limitUpload", "limitGet", "limitPut"}
    /\ task[p].timer = 0
    /\ LET site == CASE task[p].pc = "limitUpload" -> "upload"
                     [] task[p].pc = "limitGet" -> "get"
                     [] task[p].pc = "limitPut" -> "put"
       IN Proceed(p, Acquired(task[p], site, timeSinceLastRequest))
    /\ UNCHANGED <<config, zipVars, run, options, files, filteredFiles, batches, i, results,
                   upc, pauseTimer, overtaken>>

\* the sha attached whatever the lookup answered
shaAttachedAlways(status) == TRUE

\* lines 310-313: fileData.sha is set when the lookup returned the file
shaAttached(status) == status = 200

\* every error of the lookup passed over
lookupPassesAlways(status) == TRUE

\* lines 305-320: the lookup does not throw, or throws the 404 that the catch
\* passes over
lookupPasses(status) == status = 200 \/ status = 404

\* the lookup answers (lines 305-320): sha attached, 404 passed over, any
\* other error thrown to the retry loop
GetResponse(p, status) ==
    /\ Running
    /\ task[p].pc = "fetchGet"
    /\ IF lookupPasses(status)
       THEN /\ Proceed(p, Arrive([task[p] EXCEPT !.sha = shaAttached(status),
                                                 !.lookup = status], "put",
                                 timeSinceLastRequest, lastGap))
            /\ overtaken' = overtaken
       ELSE /\ task' = [task EXCEPT
                  ![p] = Caught(@, ApiError(status, task[p].attempt))]
            /\ overtaken' = (overtaken \/ Overtakes(p, task'[p]))
            /\ UNCHANGED <<timeSinceLastRequest, lastGap, fetched>>
    /\ UNCHANGED <<config, zipVars, run, options, files, filteredFiles, batches, i, results,
                   upc, pauseTimer>>

\* the PUT answers (lines 323-327, 556-567)
PutResponse(p, status) ==
    /\ Running
    /\ task[p].pc = "fetchPut"
    /\ task' = [task EXCEPT
          ![p] = IF status = 201
                 THEN [@ EXCEPT !.pc = "fulfilled", !.sha = FALSE, !.lookup = 0]
                 ELSE Caught(@, ApiError(status, task[p].attempt))]
    /\ overtaken' = (overtaken \/ Overtakes(p, task'[p]))
    /\ UNCHANGED <<config, zipVars, run, timeSinceLastRequest, options, files, filteredFiles,
                   batches, i, results, upc, pauseTimer, fetched, lastGap>>

\* the backoff timer fires: the loop's next attempt calls uploadSingleFile
RetryUpload(p) ==
    /\ Running
    /\ task[p].pc = "backoff"
    /\ task[p].timer = 0
    /\ Proceed(p, Arrive([task[p] EXCEPT !.attempt = @ + 1],
                         "upload", timeSinceLastRequest, lastGap))
    /\ UNCHANGED <<config, zipVars, run, options, files, filteredFiles, batches, i, results,
                   upc, pauseTimer, overtaken>>

\* ------------------------------------------------------------------- time
Sleeping(t) == t.pc \in {"limitUpload", "limitGet", "limitPut", "backoff"}

RunWaiting == rpc \in {"limitPost", "fetchPost", "limitProbe", "fetchProbe", "pollDelay"}

\* a timer that never runs down
TimerNeverDue(timer) == timer

\* a pending timer after tickMs more milliseconds
TimerAfterTick(timer) == IF timer > tickMs THEN timer - tickMs ELSE 0

\* tickMs milliseconds pass
Tick ==
    /\ upc \in {"join", "pause"} \/ RunWaiting \/ phase = "SummaryUpload"
    /\ timeSinceLastRequest' = Min(timeSinceLastRequest + tickMs, rateLimitDelay)
    /\ pauseTimer' = TimerAfterTick(pauseTimer)
    /\ task' = [p \in Flows |->
                  IF Sleeping(task[p])
                  THEN [task[p] EXCEPT !.timer = TimerAfterTick(@)]
                  ELSE task[p]]
    /\ runTimer' = TimerAfterTick(runTimer)
    /\ elapsed' = IF phase = "AwaitingReady"
                  THEN Min(elapsed + tickMs, MaxWaitTime)
                  ELSE elapsed
    /\ readme' = IF Sleeping(readme)
                 THEN [readme EXCEPT !.timer = TimerAfterTick(@)]
                 ELSE readme
    /\ UNCHANGED <<config, zipVars, options, files, filteredFiles, batches, i, results,
                   upc, fetched, lastGap, overtaken, phase, rpc, folderName,
                   requests, runResult>>

\* ------------------------------------------ createRepositoryAndUploadFiles
\* A repository name: its length and the kinds of character in it.
Name(n, cs) == [length |-> n, chars |-> cs]

\* the characters of /^[a-zA-Z0-9._-]+$/
NameChars == {"alnum", ".", "_", "-"}

Names ==
    { Name(0, {}),
      Name(8, {"alnum", "-"}),
      Name(8, {"alnum", " "}),
      Name(8, {"alnum", "/", "."}),
      Name(MaxNameLength, {"alnum", "_", "."}),
      Name(MaxNameLength + 1, {"alnum"}) }

\* the file list not checked
validateInputNameOnly(name, fs) ==
    IF name.length = 0 THEN "emptyName"
    ELSE IF ~(name.chars \subseteq NameChars) THEN "invalidChars"
    ELSE IF name.length > MaxNameLength THEN "tooLong"
    ELSE "ok"

\* validateInput: the error it throws, "ok" when it returns
validateInput(name, fs) ==
    IF name.length = 0 THEN "emptyName"
    ELSE IF Len(fs) = 0 THEN "emptyFiles"
    ELSE IF ~(name.chars \subseteq NameChars) THEN "invalidChars"
    ELSE IF name.length > MaxNameLength THEN "tooLong"
    ELSE "ok"

ValidationErrors == {"emptyName", "emptyFiles", "invalidChars", "tooLong"}

\* a failure that carries the upload results all the same
FailureWithResults(message, status) ==
    [success |-> FALSE, error |-> message, status |-> status, uploadResults |-> <<results>>]

\* the catch of createRepositoryAndUploadFiles (lines 80-91): what it returns
\* for an error with this message and this error.status
Failure(message, status) ==
    [success |-> FALSE, error |-> message, status |-> status, uploadResults |-> <<>>]

\* lines 68-78: the result of a run that reached its end
Success(uploadResults) ==
    [success |-> TRUE, error |-> "undefined", status |-> 0,
     uploadResults |-> <<uploadResults>>]

\* the catch block not ending the run: the flow stays where it was
FailNotReturning(message, status) ==
    /\ phase' = "Failed"
    /\ rpc' = rpc
    /\ runResult' = Failure(message, status)

\* the run ends in the catch block
Fail(message, status) ==
    /\ phase' = "Failed"
    /\ rpc' = "returned"
    /\ runResult' = Failure(message, status)

\* the run ends at line 78
Complete ==
    /\ phase' = "Completed"
    /\ rpc' = "returned"
    /\ runResult' = Success(results)

\* makeGitHubApiCall of createRepositoryAndUploadFiles' own flow: it calls
\* enforceRateLimit, which sleeps or lets the fetch go out at once
RunRequest(limitPc, fetchPc, kind) ==
    IF rateLimitWait(timeSinceLastRequest) > 0
    THEN /\ rpc' = limitPc
         /\ runTimer' = rateLimitWait(timeSinceLastRequest)
         /\ UNCHANGED <<timeSinceLastRequest, lastGap, requests>>
    ELSE /\ rpc' = fetchPc
         /\ runTimer' = 0
         /\ timeSinceLastRequest' = 0
         /\ lastGap' = timeSinceLastRequest
         /\ requests' = [requests EXCEPT ![kind] = @ + 1]

uploadVars == <<options, files, filteredFiles, batches, i, results, upc,
                pauseTimer, task, fetched, overtaken>>

\* lines 36-46: the call validates its input and, if that is valid, calls
\* createRepository, which issues POST /user/repos
CreateRepositoryAndUploadFiles ==
    /\ phase = "Validating"
    /\ IF validateInput(folderName, files) # "ok"
       THEN /\ Fail(validateInput(folderName, files), 0)
            /\ UNCHANGED <<runTimer, timeSinceLastRequest, lastGap, requests>>
       ELSE /\ phase' = "Creating"
            /\ runResult' = runResult
            /\ RunRequest("limitPost", "fetchPost", "post")
    /\ UNCHANGED <<config, zipVars, uploadVars, elapsed, folderName, readme>>

\* the timer of enforceRateLimit fires in makeGitHubApiCall: the fetch goes out
WakeRunLimit ==
    /\ rpc \in {"limitPost", "limitProbe"}
    /\ runTimer = 0
    /\ rpc' = IF rpc = "limitPost" THEN "fetchPost" ELSE "fetchProbe"
    /\ timeSinceLastRequest' = 0
    /\ lastGap' = timeSinceLastRequest
    /\ requests' = [requests EXCEPT
          ![IF rpc = "limitPost" THEN "post" ELSE "probe"] = @ + 1]
    /\ UNCHANGED <<config, zipVars, uploadVars, phase, runTimer, elapsed, folderName,
                   readme, runResult>>

\* the loop condition never false
pollAgainAlways(waited) == TRUE

\* line 152: the condition of the polling loop
pollAgain(waited) == waited < MaxWaitTime

\* the loop of waitForRepositoryReady at its condition, `waited` ms after
\* startTime: the next probe, or the timeout error
PollOrTimeout(waited) ==
    IF pollAgain(waited)
    THEN /\ RunRequest("limitProbe", "fetchProbe", "probe")
         /\ UNCHANGED <<phase, runResult>>
    ELSE /\ Fail("timeout", 0)
         /\ UNCHANGED <<runTimer, timeSinceLastRequest, lastGap, requests>>

\* POST /user/repos answers (lines 46-50): waitForRepositoryReady is called
\* and reaches its first probe, or the error ends the run
PostResponse(status) ==
    /\ rpc = "fetchPost"
    /\ IF status = 201
       THEN /\ phase' = "AwaitingReady"
            /\ runResult' = runResult
            /\ RunRequest("limitProbe", "fetchProbe", "probe")
       ELSE /\ Fail("api", status)
            /\ UNCHANGED <<runTimer, timeSinceLastRequest, lastGap, requests>>
    /\ elapsed' = 0
    /\ UNCHANGED <<config, zipVars, uploadVars, folderName, readme>>

\* a wait twice as long
pollDelayDouble == 2 * PollInterval

\* line 162: the delay after a 404
pollDelay == PollInterval

\* every error of the probe followed by a wait and another probe
probeRetriedAlways(status) == status # 200

\* line 160: the error after which the loop waits and probes again
probeRetried(status) == status = 404

\* the probe answers (lines 154-165): the repository is there and
\* uploadFilesToRepository is called, or it is not yet and the loop sleeps,
\* or the error ends the run
ProbeResponse(status) ==
    /\ rpc = "fetchProbe"
    /\ IF status = 200
       THEN /\ phase' = "Uploading"
            /\ rpc' = "upload"
            /\ upc' = "call"
            /\ elapsed' = 0
            /\ requests' = [requests EXCEPT !.lastProbe = status]
            /\ UNCHANGED <<runTimer, runResult>>
       ELSE IF probeRetried(status)
       THEN /\ rpc' = "pollDelay"
            /\ runTimer' = pollDelay
            /\ requests' = [requests EXCEPT !.notFound = @ + 1,
                                            !.pollWaits = @ + 1,
                                            !.waitedMs = @ + pollDelay,
                                            !.lastProbe = status]
            /\ UNCHANGED <<phase, upc, elapsed, runResult>>
       ELSE /\ Fail("api", status)
            /\ elapsed' = 0
            /\ requests' = [requests EXCEPT !.lastProbe = status]
            /\ UNCHANGED <<upc, runTimer>>
    /\ UNCHANGED <<config, zipVars, timeSinceLastRequest, lastGap, options, files,
                   filteredFiles, batches, i, results, pauseTimer, task, fetched,
                   overtaken, folderName, readme>>

\* the delay after a 404 is over: the loop is at its condition again
PollAgain ==
    /\ rpc = "pollDelay"
    /\ runTimer = 0
    /\ PollOrTimeout(elapsed)
    /\ elapsed' = IF pollAgain(elapsed) THEN elapsed ELSE 0
    /\ UNCHANGED <<config, zipVars, uploadVars, folderName, readme>>

\* the README written whatever options.createReadme says
readmeWantedAlways(opts) == TRUE

\* line 61: options.createReadme !== false
readmeWanted(opts) == opts.createReadme

\* createReadmeFile calls uploadSingleFile with checkExisting: true (lines
\* 350-353): after uploadSingleFile's own enforceRateLimit comes the lookup
ReadmeAcquired(t, site, since) ==
    IF site = "upload"
    THEN Arrive(t, "get", 0, since)
    ELSE Acquired(t, site, since)

\* history: the request the README flow has just issued
ReadmeIssued(t) ==
    [requests EXCEPT
        !.readmeGet = IF t.pc = "fetchGet" THEN @ + 1 ELSE @,
        !.readmePut = IF t.pc = "fetchPut" THEN @ + 1 ELSE @]

\* the README flow has run to its next suspension with result r
ReadmeProceed(r) ==
    /\ readme' = r.task
    /\ timeSinceLastRequest' = r.since
    /\ lastGap' = r.gap
    /\ requests' = ReadmeIssued(r.task)

\* uploadFilesToRepository has returned (lines 53-78): createReadmeFile is
\* called, or the run returns its result
UploadsReturned ==
    /\ phase = "Uploading"
    /\ upc = "return"
    /\ IF readmeWanted(options)
       THEN /\ phase' = "SummaryUpload"
            /\ rpc' = "readme"
            /\ runResult' = runResult
            /\ ReadmeProceed(
                  IF rateLimitWait(timeSinceLastRequest) > 0
                  THEN [task |-> [NewTask EXCEPT
                                    !.pc = "limitUpload", !.attempt = 1,
                                    !.timer = rateLimitWait(timeSinceLastRequest)],
                        since |-> timeSinceLastRequest, gap |-> lastGap]
                  ELSE ReadmeAcquired([NewTask EXCEPT !.attempt = 1], "upload",
                                      timeSinceLastRequest))
       ELSE /\ Complete
            /\ UNCHANGED <<readme, timeSinceLastRequest, lastGap, requests>>
    /\ UNCHANGED <<config, zipVars, uploadVars, runTimer, elapsed, folderName>>

\* the timer of enforceRateLimit fires in the README flow
WakeReadmeLimit ==
    /\ phase = "SummaryUpload"
    /\ readme.pc \in {"limitUpload", "limitGet", "limitPut"}
    /\ readme.timer = 0
    /\ LET site == CASE readme.pc = "limitUpload" -> "upload"
                     [] readme.pc = "limitGet" -> "get"
                     [] readme.pc = "limitPut" -> "put"
       IN ReadmeProceed(ReadmeAcquired(readme, site, timeSinceLastRequest))
    /\ UNCHANGED <<config, zipVars, uploadVars, phase, rpc, runTimer, elapsed, folderName,
                   runResult>>

\* createReadmeFile throws inside the try of createRepositoryAndUploadFiles
\* (lines 61-63, 80): the catch block returns the failure
ReadmeFailed(status) == Fail("api", status)

\* the lookup of README.md answers
ReadmeGetResponse(status) ==
    /\ phase = "SummaryUpload"
    /\ readme.pc = "fetchGet"
    /\ IF lookupPasses(status)
       THEN /\ ReadmeProceed(Arrive([readme EXCEPT !.sha = shaAttached(status),
                                                   !.lookup = status], "put",
                                    timeSinceLastRequest, lastGap))
            /\ UNCHANGED <<phase, rpc, runResult>>
       ELSE /\ ReadmeFailed(status)
            /\ readme' = [readme EXCEPT !.pc = "rejected",
                             !.reason = ApiError(status, 1)]
            /\ UNCHANGED <<timeSinceLastRequest, lastGap, requests>>
    /\ UNCHANGED <<config, zipVars, uploadVars, runTimer, elapsed, folderName>>

\* the PUT of README.md answers: the run returns
ReadmePutResponse(status) ==
    /\ phase = "SummaryUpload"
    /\ readme.pc = "fetchPut"
    /\ IF status = 201
       THEN /\ Complete
            /\ readme' = [readme EXCEPT !.pc = "fulfilled"]
       ELSE /\ ReadmeFailed(status)
            /\ readme' = [readme EXCEPT !.pc = "rejected",
                             !.reason = ApiError(status, 1)]
    /\ UNCHANGED <<config, zipVars, uploadVars, timeSinceLastRequest, lastGap, runTimer,
                   elapsed, folderName, requests>>

Next ==
    \/ UploadFilesToRepository
    \/ StartUpload
    \/ JoinBatch
    \/ NextBatch
    \/ \E p \in Flows : WakeRateLimit(p)
    \/ \E p \in Flows, status \in GetStatuses : GetResponse(p, status)
    \/ \E p \in Flows, status \in PutStatuses : PutResponse(p, status)
    \/ \E p \in Flows : RetryUpload(p)
    \/ Tick

Spec == Init /\ [][Next]_vars

SpecRetry == InitRetry /\ [][Next]_vars

SpecLists == InitLists /\ [][UploadFilesToRepository]_vars

\* a run of createRepositoryAndUploadFiles on a new agent: the name and the
\* file list valid or not, two files uploaded one after the other, time
\* counted in steps of the poll interval, the delays one such step
RunOptionSets ==
    { [maxFileSize |-> 0, allowedExtensions |-> Undefined, checkExisting |-> c,
       createReadme |-> r] : c \in BOOLEAN, r \in BOOLEAN }

InitRun ==
    /\ InitAgent({2}, {PollInterval}, {PollInterval}, {1}, {0, 2})
    /\ ZipIdle
    /\ options \in RunOptionSets
    /\ tickMs = PollInterval
    /\ upc = "idle"
    /\ phase = "Validating"
    /\ rpc = "called"
    /\ folderName \in Names

NextRun ==
    \/ Next
    \/ CreateRepositoryAndUploadFiles
    \/ WakeRunLimit
    \/ \E status \in PutStatuses : PostResponse(status)
    \/ \E status \in GetStatuses : ProbeResponse(status)
    \/ PollAgain
    \/ UploadsReturned
    \/ WakeReadmeLimit
    \/ \E status \in GetStatuses : ReadmeGetResponse(status)
    \/ \E status \in PutStatuses : ReadmePutResponse(status)

SpecRun == InitRun /\ [][NextRun]_vars

\* the same run on an event loop that goes on: as long as a step of the run
\* can be taken (a response arrives, a timer that is due fires, time passes),
\* one is taken
SpecRunFair == InitRun /\ [][NextRun]_vars /\ WF_vars(NextRun)

\* ============================================= ZipProcessor (unzip-code.js)
\* A string is the sequence of its characters.
Last(s) == s[Len(s)]
Front(s) == SubSeq(s, 1, Len(s) - 1)

\* String.prototype.toLowerCase on the characters used here
LowerChar(c) ==
    CASE c = "B" -> "b"
      [] c = "Z" -> "z"
      [] c = "I" -> "i"
      [] c = "P" -> "p"
      [] OTHER -> c

toLowerCase(s) == [k \in 1..Len(s) |-> LowerChar(s[k])]

\* the characters of the class [a-zA-Z0-9\-_]
WordChars == {"a", "b", "B", "z", "i", "p", "Z", "I", "P", "7", "-", "_"}

DotZip == <<".", "z", "i", "p">>

\* .replace(/\.zip$/i, '')
stripZip(s) ==
    IF Len(s) >= 4 /\ toLowerCase(SubSeq(s, Len(s) - 3, Len(s))) = DotZip
    THEN SubSeq(s, 1, Len(s) - 4)
    ELSE s

\* .replace(/[^a-zA-Z0-9\-_]/g, '-')
replaceOthers(s) == [k \in 1..Len(s) |-> IF s[k] \in WordChars THEN s[k] ELSE "-"]

\* the characters of s at the positions in `kept`, in order
Keep(s, kept) ==
    [j \in 1..Cardinality(kept) |->
        s[CHOOSE k \in kept : Cardinality({m \in kept : m <= k}) = j]]

\* .replace(/-+/g, '-'): of every run of dashes the first one stays
collapseDashes(s) ==
    Keep(s, {k \in 1..Len(s) : ~(s[k] = "-" /\ k > 1 /\ s[k - 1] = "-")})

\* .replace(/^-|-$/g, ''): one dash at the start and one at the end
trimDash(s) ==
    LET t == IF Len(s) > 0 /\ s[1] = "-" THEN Tail(s) ELSE s
    IN IF Len(t) > 0 /\ Last(t) = "-" THEN Front(t) ELSE t

\* the dashes trimmed before the runs of dashes are collapsed
generateFolderNameTrimFirst(originalFileName) ==
    toLowerCase(collapseDashes(trimDash(replaceOthers(stripZip(originalFileName)))))

\* lines 99-106
generateFolderName(originalFileName) ==
    toLowerCase(trimDash(collapseDashes(replaceOthers(stripZip(originalFileName)))))

\* String.prototype.lastIndexOf(c), 1-based; 0 where JavaScript gives -1
lastIndexOf(s, c) ==
    IF \E k \in 1..Len(s) : s[k] = c
    THEN CHOOSE k \in 1..Len(s) : s[k] = c /\ \A m \in (k + 1)..Len(s) : s[m] # c
    ELSE 0

\* line 35: name.toLowerCase().substring(name.lastIndexOf('.')); substring(-1)
\* is the whole string
extensionOf(name) ==
    IF lastIndexOf(name, ".") = 0
    THEN toLowerCase(name)
    ELSE SubSeq(toLowerCase(name), lastIndexOf(name, "."), Len(name))

\* this.allowedExtensions as configured (line 19)
allowedExtensions == {DotZip}

\* the size not checked
validateFileExtensionOnly(fileInfo) ==
    IF extensionOf(fileInfo.name) \notin allowedExtensions THEN "badExtension"
    ELSE "ok"

\* validateFile: the error it throws, "ok" when it returns true
validateFile(fileInfo) ==
    IF fileInfo.size > MaxArchiveSize THEN "tooLarge"
    ELSE IF extensionOf(fileInfo.name) \notin allowedExtensions THEN "badExtension"
    ELSE "ok"

\* An entry of zip.files: its relativePath split at '/', whether it is a
\* directory, and the sizes in zipEntry._data.
Entry(parts, dir, size, compressedSize) ==
    [path |-> parts, dir |-> dir, size |-> size, compressedSize |-> compressedSize]

EntryCatalog ==
    << Entry(<<"src", "a">>, FALSE, 8, 3),
       Entry(<<"src", "b">>, FALSE, 8, 9),
       Entry(<<"r">>, FALSE, 0, 0),
       Entry(<<"src", "">>, TRUE, 0, 0),
       Entry(<<"src", "lib", "c">>, FALSE, 4, 1),
       Entry(<<"constructor", "x">>, FALSE, 2, 2),
       Entry(<<"src">>, FALSE, 1, 1) >>

\* lines 130-141: the record extractAllFiles builds of an entry
FileInfo(entry) ==
    [path |-> entry.path, name |-> Last(entry.path), size |-> entry.size,
     compressedSize |-> entry.compressedSize, directory |-> Front(entry.path)]

\* lines 120-121: the next entry after index `from` that is not a directory,
\* 0 when the loop is over
nextFileEntry(entries, from) ==
    IF \E k \in (from + 1)..Len(entries) : ~entries[k].dir
    THEN CHOOSE k \in (from + 1)..Len(entries) :
            /\ ~entries[k].dir
            /\ \A m \in (from + 1)..(k - 1) : entries[m].dir
    ELSE 0

\* ------------------------------------------------------ buildFileStructure
\* A level of the tree is a JavaScript object: a function from its own keys
\* to nodes.  Every object also has the members of Object.prototype.
EmptyLevel == [k \in {} |-> 0]

ProtoKeys == {"constructor", "toString", "hasOwnProperty"}

Put(level, key, node) ==
    [k \in DOMAIN level \cup {key} |-> IF k = key THEN node ELSE level[k]]

DirNode(children, fileCount, totalSize) ==
    [type |-> "directory", children |-> children, fileCount |-> fileCount,
     totalSize |-> totalSize]

FileNode(file) == [type |-> "file", size |-> file.size]

Built(level) == [ok |-> TRUE, level |-> level]

\* TypeError: currentLevel is undefined
TypeError == [ok |-> FALSE, level |-> EmptyLevel]

RECURSIVE addFile(_, _, _)
\* lines 170-196 for one file, from the level reached with `parts` left.
\* currentLevel[dirName] that is a file node or a member of Object.prototype
\* is truthy and has no children: currentLevel becomes undefined and the next
\* access throws.
addFile(level, parts, file) ==
    IF Len(parts) = 1
    THEN Built(Put(level, parts[1], FileNode(file)))
    ELSE IF parts[1] \in DOMAIN level
    THEN IF level[parts[1]].type = "directory"
         THEN LET sub == addFile(level[parts[1]].children, Tail(parts), file)
              IN IF sub.ok
                 THEN Built(Put(level, parts[1],
                                DirNode(sub.level,
                                        level[parts[1]].fileCount + 1,
                                        level[parts[1]].totalSize + file.size)))
                 ELSE TypeError
         ELSE TypeError
    ELSE IF parts[1] \in ProtoKeys
    THEN TypeError
    ELSE LET sub == addFile(EmptyLevel, Tail(parts), file)
         IN IF sub.ok
            THEN Built(Put(level, parts[1], DirNode(sub.level, 1, file.size)))
            ELSE TypeError

RECURSIVE buildFrom(_, _, _)
buildFrom(level, fs, k) ==
    IF k > Len(fs) THEN Built(level)
    ELSE LET r == addFile(level, fs[k].path, fs[k])
         IN IF r.ok THEN buildFrom(r.level, fs, k + 1) ELSE TypeError

\* lines 166-200: the structure, or the TypeError thrown
buildFileStructure(fs) == buildFrom(EmptyLevel, fs, 1)

\* ------------------------------------------------------ generateStatistics
RECURSIVE sumOf(_, _)
\* the forEach of lines 220-224 on one field
sumOf(fs, field) ==
    IF fs = <<>> THEN 0 ELSE fs[1][field] + sumOf(Tail(fs), field)

\* Math.round(n / d) for d > 0: the nearest integer, a half rounded up
MathRound(n, d) == (2 * n + d) \div (2 * d)

\* the ratio cut off instead of rounded
compressionRatioTruncated(totalSize, totalCompressedSize) ==
    IF totalSize > 0
    THEN (100 * (totalSize - totalCompressedSize)) \div totalSize
    ELSE 0

\* lines 248-249
compressionRatio(totalSize, totalCompressedSize) ==
    IF totalSize > 0
    THEN MathRound(100 * (totalSize - totalCompressedSize), totalSize)
    ELSE 0

\* the compressed sizes summed as the total size
totalSizeCompressed(fs) == sumOf(fs, "compressedSize")

\* line 222
totalSizeOf(fs) == sumOf(fs, "size")

\* lines 207-255 (fileTypes, directories, largestFile, smallestFile left out)
generateStatistics(fs) ==
    [totalFiles |-> Len(fs),
     totalSize |-> totalSizeOf(fs),
     totalCompressedSize |-> sumOf(fs, "compressedSize"),
     averageFileSize |-> IF Len(fs) > 0 THEN MathRound(totalSizeOf(fs), Len(fs)) ELSE 0,
     compressionRatio |-> compressionRatio(totalSizeOf(fs), sumOf(fs, "compressedSize"))]

\* ---------------------------------------------- processZipFile, the workflow
\* index.js lines 121-130: what the catch of processWorkflow returns
WorkflowFailure(message) == [returned |-> TRUE, success |-> FALSE, error |-> message]

\* index.js lines 100-119
WorkflowSuccess == [returned |-> TRUE, success |-> TRUE, error |-> "undefined"]

\* processZipFile throws (lines 88-91); processWorkflow's catch returns the
\* failure (index.js lines 121-130)
ZipFailure(message) ==
    /\ zipResult' = [NoZipResult EXCEPT !.error = message]
    /\ zpc' = IF archive.caller = "processWorkflow" THEN "failed" ELSE "thrown"
    /\ workflowResult' = IF archive.caller = "processWorkflow"
                         THEN WorkflowFailure(message)
                         ELSE workflowResult

\* lines 54-63: the folder name, then loadAsync
StartProcessZipFile ==
    /\ zipResult' = [zipResult EXCEPT !.folderName = generateFolderName(archive.name)]
    /\ zipCalls' = [zipCalls EXCEPT !.load = @ + 1]
    /\ zpc' = "loading"
    /\ workflowResult' = workflowResult

githubVars == <<config, run, uploadVars, timeSinceLastRequest, lastGap>>

\* processWorkflow (index.js lines 61-73): prepareZipData takes the input
\* (a path that cannot be read and an input of no accepted form throw, lines
\* 143 and 155) and validates the archive, then processZipFile is called
ProcessWorkflow ==
    /\ zpc = "workflow"
    /\ IF archive.input # "data"
       THEN /\ ZipFailure(archive.input)
            /\ zipCalls' = zipCalls
       ELSE IF validateFile([name |-> archive.name, size |-> archive.size]) # "ok"
       THEN /\ ZipFailure(validateFile([name |-> archive.name, size |-> archive.size]))
            /\ zipCalls' = zipCalls
       ELSE StartProcessZipFile
    /\ UNCHANGED <<githubVars, archive, entryIndex, extractedFiles>>

\* processZipFile called by another caller, as it stands
ProcessZipFile ==
    /\ zpc = "direct"
    /\ StartProcessZipFile
    /\ UNCHANGED <<githubVars, archive, entryIndex, extractedFiles>>

\* lines 69-86: the structure, the statistics and the result; the caller
\* processWorkflow goes on to createRepositoryAndUploadFiles (index.js line 83)
Finish(fs) ==
    IF buildFileStructure(fs).ok
    THEN /\ zipResult' = [success |-> TRUE, error |-> "undefined",
                          folderName |-> zipResult.folderName,
                          fileCount |-> Len(fs),
                          fileStructure |-> buildFileStructure(fs).level,
                          statistics |-> generateStatistics(fs)]
         /\ zpc' = IF archive.caller = "processWorkflow" THEN "github" ELSE "returned"
         /\ workflowResult' = workflowResult
    ELSE ZipFailure("processing")

\* extractAllFiles at the head of its loop: the file entry `next` is
\* decoded, or (0) the loop is over
Extract(next, fs) ==
    IF next # 0
    THEN /\ entryIndex' = next
         /\ zpc' = "decoding"
         /\ zipResult' = zipResult
         /\ workflowResult' = workflowResult
    ELSE /\ entryIndex' = 0
         /\ Finish(fs)

\* loadAsync answers: the container opens, or it does not
LoadAnswer(opens) ==
    /\ zpc = "loading"
    /\ IF opens
       THEN Extract(nextFileEntry(archive.entries, 0), extractedFiles)
       ELSE /\ ZipFailure("container")
            /\ entryIndex' = entryIndex
    /\ UNCHANGED <<githubVars, archive, extractedFiles, zipCalls>>

\* the skipped entry ending the loop
afterFailedDecodeStop(entries, from) == 0

\* lines 151-154: the catch goes on with the next entry
afterFailedDecode(entries, from) == nextFileEntry(entries, from)

\* zipEntry.async answers (lines 124-154): the record is pushed, or the
\* entry is skipped
DecodeAnswer(decoded) ==
    /\ zpc = "decoding"
    /\ extractedFiles' = IF decoded
                         THEN Append(extractedFiles, FileInfo(archive.entries[entryIndex]))
                         ELSE extractedFiles
    /\ zipCalls' = [zipCalls EXCEPT
          !.decode = Append(@, [entry |-> entryIndex, decoded |-> decoded])]
    /\ Extract(IF decoded
               THEN nextFileEntry(archive.entries, entryIndex)
               ELSE afterFailedDecode(archive.entries, entryIndex),
               extractedFiles')
    /\ UNCHANGED <<githubVars, archive>>

NextZip ==
    \/ ProcessWorkflow
    \/ ProcessZipFile
    \/ \E opens \in BOOLEAN : LoadAnswer(opens)
    \/ \E decoded \in BOOLEAN : DecodeAnswer(decoded)

\* the agent idle: no upload, no run
GitHubIdle ==
    /\ InitAgent({1}, {1}, {1}, {1}, {0})
    /\ options = [maxFileSize |-> 0, allowedExtensions |-> Undefined, checkExisting |-> TRUE]
    /\ tickMs = 1
    /\ upc = "idle"
    /\ phase = "None"
    /\ rpc = "none"
    /\ folderName = Name(0, {})

Callers == {"processWorkflow", "direct"}

\* a call of processWorkflow or of processZipFile on this archive
InitCall(callers, names, sizes, entryLists) ==
    /\ GitHubIdle
    /\ archive \in [caller : callers, input : {"data"}, name : names, size : sizes,
                    entries : entryLists]
    /\ zpc = IF archive.caller = "processWorkflow" THEN "workflow" ELSE "direct"
    /\ entryIndex = 0
    /\ extractedFiles = <<>>
    /\ zipResult = NoZipResult
    /\ zipCalls = NoZipCalls
    /\ workflowResult = NoWorkflowResult

PrefixChars == {"a", "B", "-", "_", ".", " "}

Endings ==
    { <<>>, DotZip, <<".", "Z", "i", "P">>, DotZip \o DotZip, <<"z", "i", "p">> }

Prefixes == UNION { [1..n -> PrefixChars] : n \in 0..MaxPrefixLen }

\* a name longer than validateInput accepts
LongName == [k \in 1..(MaxNameLength + 1) |-> "a"] \o DotZip

ArchiveNames == { p \o e : p \in Prefixes, e \in Endings } \cup {LongName}

\* the entries of an archive: up to MaxEntries different entries of the
\* catalog, in any order
EntryLists ==
    UNION { { [k \in 1..n |-> EntryCatalog[f[k]]] :
                f \in { g \in [1..n -> 1..Len(EntryCatalog)] :
                           \A x, y \in 1..n : x # y => g[x] # g[y] } } :
            n \in 0..MaxEntries }

\* every archive name, a size that validateFile accepts or not, one entry
InitNames ==
    InitCall(Callers, ArchiveNames, {1, MaxArchiveSize + 1}, {<<EntryCatalog[1]>>})

\* every entry list; a name and a size that validateFile accepts or not
InitZip ==
    InitCall(Callers, {<<"a">> \o DotZip, <<"a", ".", "B">>},
             {1, MaxArchiveSize + 1}, EntryLists)

SpecNames == InitNames /\ [][NextZip]_vars

SpecZip == InitZip /\ [][NextZip]_vars

\* ----------------------------------------- processWorkflow, to its return
\* the rank of a directory and of a name in localeCompare order, for the
\* directories and names of the entries of EntryCatalog
DirRank(dir) ==
    CASE dir = <<>> -> 0
      [] dir = <<"constructor">> -> 1
      [] dir = <<"src">> -> 2
      [] dir = <<"src", "lib">> -> 3

NameRank(name) ==
    CASE name = "a" -> 1
      [] name = "b" -> 2
      [] name = "c" -> 3
      [] name = "r" -> 4
      [] name = "src" -> 5
      [] name = "x" -> 6

\* a record of extractAllFiles as GitHubAgent reads it; a name with no dot
\* is its own extension (substring(-1))
toFile(info) ==
    File(info.path, DirRank(info.directory), NameRank(info.name), info.size, info.name)

\* the folder name as validateInput reads it: its length and its kinds of
\* character
toName(name) ==
    Name(Len(name),
         { IF name[k] \in {"-", "_", ".", " "} THEN name[k] ELSE "alnum" : k \in 1..Len(name) })

\* index.js line 83: createRepositoryAndUploadFiles is called with the folder
\* name and the records of the extraction
Publish ==
    /\ zpc = "github"
    /\ zpc' = "publishing"
    /\ phase' = "Validating"
    /\ rpc' = "called"
    /\ folderName' = toName(zipResult.folderName)
    /\ files' = [k \in 1..Len(extractedFiles) |-> toFile(extractedFiles[k])]
    /\ UNCHANGED <<config, timeSinceLastRequest, lastGap, options, filteredFiles, batches,
                   i, results, upc, pauseTimer, task, fetched, overtaken, runTimer,
                   elapsed, readme, requests, runResult, archive, entryIndex,
                   extractedFiles, zipResult, zipCalls, workflowResult>>

\* the result returned whatever createRepositoryAndUploadFiles reported
publicationUnchecked(result) == TRUE

\* index.js line 94: githubResult.success
publicationChecked(result) == result.success

\* createRepositoryAndUploadFiles has returned (index.js lines 94-130): the
\* summary is returned, or the throw of line 95 lands in the catch
WorkflowReturn ==
    /\ zpc = "publishing"
    /\ rpc = "returned"
    /\ IF publicationChecked(runResult)
       THEN /\ zpc' = "done"
            /\ workflowResult' = WorkflowSuccess
       ELSE /\ zpc' = "failed"
            /\ workflowResult' = WorkflowFailure("github")
    /\ UNCHANGED <<githubVars, archive, entryIndex, extractedFiles, zipResult, zipCalls>>

\* the inputs of processWorkflow: one that prepareZipData cannot read or
\* does not accept, or an archive: its name and size valid or not, its folder
\* name empty or not, no entry, one or two, or one that buildFileStructure
\* fails on
WorkflowArchives ==
    [caller : {"processWorkflow"}, input : {"unreadable", "invalid"},
     name : {<<"a">> \o DotZip}, size : {1}, entries : {<<>>}]
    \cup
    [caller : {"processWorkflow"}, input : {"data"},
     name : {<<"a">> \o DotZip, DotZip, <<"a", ".", "B">>},
     size : {1, MaxArchiveSize + 1},
     entries : {<<>>, <<EntryCatalog[1]>>, <<EntryCatalog[1], EntryCatalog[3]>>,
                <<EntryCatalog[6]>>}]

\* processWorkflow called on a new controller; the agent as in InitRun
InitWorkflow ==
    /\ InitAgent({2}, {PollInterval}, {PollInterval}, {1}, {0})
    /\ options \in { [maxFileSize |-> 0, allowedExtensions |-> Undefined,
                       checkExisting |-> TRUE, createReadme |-> r] : r \in BOOLEAN }
    /\ tickMs = PollInterval
    /\ upc = "idle"
    /\ phase = "None"
    /\ rpc = "none"
    /\ folderName = Name(0, {})
    /\ archive \in WorkflowArchives
    /\ zpc = "workflow"
    /\ entryIndex = 0
    /\ extractedFiles = <<>>
    /\ zipResult = NoZipResult
    /\ zipCalls = NoZipCalls
    /\ workflowResult = NoWorkflowResult

NextWorkflow ==
    \/ ProcessWorkflow
    \/ \E opens \in BOOLEAN : LoadAnswer(opens)
    \/ \E decoded \in BOOLEAN : DecodeAnswer(decoded)
    \/ Publish
    \/ NextRun
    \/ WorkflowReturn

SpecWorkflow == InitWorkflow /\ [][NextWorkflow]_vars

\* ================================================================ claims
TerminalPcs == {"fulfilled", "rejected"}
InFlight(p) == task[p].pc \notin {"new"} \cup TerminalPcs
AuthStatuses == {401, 403}
NoFilter == options.maxFileSize = 0 /\ options.allowedExtensions = Undefined
Excluded == Paths(files) \ Paths(filteredFiles)
DetailsOf(p) == {k \in 1..Len(results.details) : results.details[k].path = p}

\* C1: no two completions of enforceRateLimit are closer together than
\* rateLimitDelay, also when the flows of one batch call it concurrently.
C1_AcquireSpacing == lastGap >= rateLimitDelay

\* C2: a file gets at most maxRetries upload attempts, and none after the
\* attempt that succeeded (a fulfilled flow stays as it is until it is recorded).
C2_AtMostMaxRetries ==
    [][\A p \in DOMAIN task' :
          /\ task'[p].attempt <= maxRetries
          /\ (p \in DOMAIN task /\ task[p].pc = "fulfilled")
                => (task'[p].pc = "fulfilled" /\ task'[p].attempt <= task[p].attempt)]_vars

C2_Witness ==
    \E p \in DOMAIN task :
        task[p].pc = "fulfilled" /\ task[p].attempt = maxRetries /\ maxRetries >= 2

\* C3: the delay waited before attempt k (2 <= k <= maxRetries) is retryDelay
\* for k = 2 and doubles with every further attempt, retryDelay * 2^(k-2); a
\* delay has been waited before every attempt after the first.
C3_BackoffDoubles ==
    \A p \in DOMAIN task :
        LET d == task[p].delays IN
        /\ Len(d) = (IF task[p].pc = "backoff" THEN task[p].attempt
                     ELSE IF task[p].attempt = 0 THEN 0 ELSE task[p].attempt - 1)
        /\ \A k \in 1..Len(d) : d[k] = (IF k = 1 THEN retryDelay ELSE 2 * d[k - 1])
        /\ task[p].pc = "backoff" => task[p].timer <= d[Len(d)]

C3_Witness ==
    \E p \in DOMAIN task :
        /\ task[p].attempt = 3
        /\ task[p].pc = "fetchPut"
        /\ task[p].delays = <<2, 4>>

\* C4: when every attempt has failed, the flow rejects with the failure of
\* the last attempt, tagged as an exhausted-retries error.
C4_ExhaustedTagged ==
    \A p \in DOMAIN task :
        (task[p].pc = "rejected" /\ task[p].attempt > 0) =>
            /\ task[p].reason.attempt = maxRetries
            /\ task[p].reason.name = "RetriesExhaustedError"

\* C5: after an attempt failed with an authorization status (401, 403) no
\* further attempt is made for the file: the flow is rejected at once.
C5_AuthNotRetried ==
    \A p \in DOMAIN task :
        task[p].lastError.status \in AuthStatuses => task[p].pc = "rejected"

\* C6: a file that fails all its attempts aborts nothing: uploadFilesToRepository
\* never throws, and when it returns every filtered file has been attempted
\* and has exactly one outcome.
C6_FailureIsolation ==
    /\ upc # "throw"
    /\ upc = "return" =>
          \A p \in Paths(filteredFiles) :
              /\ p \in fetched
              /\ task[p].pc \in TerminalPcs
              /\ Cardinality(DetailsOf(p)) = 1

C6_Witness ==
    /\ upc = "return"
    /\ Len(batches) = 2
    /\ Len(batches[1]) = 2
    /\ task[batches[1][1].path].pc = "rejected"
    /\ task[batches[1][2].path].pc = "fulfilled"
    /\ task[batches[2][1].path].pc = "fulfilled"

\* C7: with no filter, at return successCount is the number of files with a
\* successful attempt, failedCount the number of files whose every attempt
\* failed, and skippedCount is 0.
C7_Counts ==
    (upc = "return" /\ NoFilter) =>
        /\ results.successCount = Cardinality({p \in Paths(files) : task[p].pc = "fulfilled"})
        /\ results.failedCount = Cardinality({p \in Paths(files) : task[p].pc = "rejected"})
        /\ results.successCount + results.failedCount = Len(files)
        /\ results.skippedCount = 0

C7_Witness ==
    /\ upc = "return"
    /\ NoFilter
    /\ Len(files) = 3
    /\ results.successCount = 2
    /\ results.failedCount = 1

\* C8: every file the filter excludes is counted as skipped, with a 'skipped'
\* outcome, and no request is issued for it.
C8_SkippedCounted ==
    upc = "return" =>
        /\ results.skippedCount = Cardinality(Excluded)
        /\ \A p \in Excluded :
              /\ p \notin fetched
              /\ \E k \in DetailsOf(p) : results.details[k].status = "skipped"

\* C9: createBatches yields ceil(N/B) batches, none empty, none longer than B,
\* all but the last of length B, whose concatenation is the filtered list.
C9_Batches ==
    upc # "call" =>
        LET n == Len(filteredFiles) IN
        /\ Len(batches) = (n + batchSize - 1) \div batchSize
        /\ \A b \in 1..Len(batches) :
              /\ Len(batches[b]) >= 1
              /\ Len(batches[b]) <= batchSize
              /\ b < Len(batches) => Len(batches[b]) = batchSize
        /\ Flatten(batches) = filteredFiles

C9_Witness ==
    /\ upc # "call"
    /\ Len(batches) = 3
    /\ Len(batches[3]) < batchSize

\* C10: no flow of a later batch has started while a flow of an earlier batch
\* has no terminal outcome, and at most batchSize uploads are in flight.
C10_BatchesSequential ==
    /\ \A a, b \in 1..Len(batches) :
          (a < b /\ \E k \in 1..Len(batches[a]) :
                        task[batches[a][k].path].pc \notin TerminalPcs)
             => \A m \in 1..Len(batches[b]) : task[batches[b][m].path].pc = "new"
    /\ Cardinality({p \in DOMAIN task : InFlight(p)}) <= batchSize

C10_Witness ==
    /\ Len(batches) = 2
    /\ \A k \in 1..Len(batches[1]) : task[batches[1][k].path].pc \in TerminalPcs
    /\ Len(batches[1]) = 2
    /\ InFlight(batches[2][1].path)

\* C11: whatever order the uploads of a batch settle in, the entries of
\* results.details are in the order of the filtered and sorted list: entry k is
\* the outcome of the k-th sorted file, and at return there is one per file.
C11_DetailsInSortedOrder ==
    /\ Len(results.details) <= Len(filteredFiles)
    /\ \A k \in 1..Len(results.details) :
          results.details[k].path = filteredFiles[k].path
    /\ \A k \in 1..(Len(filteredFiles) - 1) :
          compareFiles(filteredFiles[k], filteredFiles[k + 1]) <= 0
    /\ upc = "return" => Len(results.details) = Len(filteredFiles)

C11_Witness ==
    /\ upc = "return"
    /\ overtaken
    /\ Len(results.details) = 2
    /\ results.details[1].status = "failed"
    /\ results.details[2].status = "success"

\* C12: with checkExisting, a PUT goes out only after the lookup of the
\* attempt was answered; it carries the sha exactly when the lookup found the
\* file (200), none when the lookup answered 404, and a 404 of the lookup is
\* never the error of an attempt or of a file.
C12_LookupThenPut ==
    options.checkExisting =>
        /\ \A p \in DOMAIN task :
              /\ task[p].pc \in {"limitPut", "fetchPut"} =>
                    /\ task[p].lookup \in {200, 404}
                    /\ task[p].sha = (task[p].lookup = 200)
              /\ task[p].lastError.status # 404
              /\ task[p].reason.status # 404
        /\ \A k \in 1..Len(results.details) :
              results.details[k].status = "failed" => results.details[k].error # 404

C12_Witness ==
    /\ options.checkExisting
    /\ \E p, q \in DOMAIN task :
          /\ task[p].pc = "fetchPut" /\ task[p].lookup = 200 /\ task[p].sha
          /\ task[q].pc = "fetchPut" /\ task[q].lookup = 404 /\ ~task[q].sha

\* ---------------------------------------- createRepositoryAndUploadFiles
Ended == {"Completed", "Failed"}

PhaseSteps ==
    { <<"Validating", "Creating">>, <<"Validating", "Failed">>,
      <<"Creating", "AwaitingReady">>, <<"Creating", "Failed">>,
      <<"AwaitingReady", "Uploading">>, <<"AwaitingReady", "Failed">>,
      <<"Uploading", "SummaryUpload">>, <<"Uploading", "Completed">>,
      <<"Uploading", "Failed">>,
      <<"SummaryUpload", "Completed">>, <<"SummaryUpload", "Failed">> }

InvalidInput ==
    \/ folderName.length = 0
    \/ ~(folderName.chars \subseteq NameChars)
    \/ folderName.length > MaxNameLength
    \/ Len(files) = 0

Rejected == {p \in DOMAIN task : task[p].pc = "rejected"}

\* C13: the run changes phase only forwards along Validating, Creating,
\* AwaitingReady, Uploading, (SummaryUpload), to Completed or Failed, and once
\* it has ended it changes phase no more and issues no request.
C13_PhaseOrder ==
    [][/\ phase' # phase => <<phase, phase'>> \in PhaseSteps
       /\ phase \in Ended =>
             /\ phase' = phase
             /\ requests' = requests
             /\ fetched' = fetched]_vars

C13_Witness ==
    /\ phase = "Completed"
    /\ requests.notFound = 2
    /\ readme.pc = "fulfilled"
    /\ results.failedCount = 1

\* C14: with an empty name, an invalid character, a name longer than 100 or an
\* empty file list the run goes from Validating to Failed with a validation
\* error, and no request of any kind is issued.
C14_InvalidInputFails ==
    InvalidInput =>
        /\ phase \in {"Validating", "Failed"}
        /\ requests = NoRequests
        /\ fetched = {}
        /\ phase = "Failed" =>
              /\ ~runResult.success
              /\ runResult.error \in ValidationErrors

C14_Witness ==
    /\ phase = "Failed"
    /\ Len(files) = 0
    /\ folderName.chars \subseteq NameChars
    /\ folderName.length = MaxNameLength
    /\ runResult.error = "emptyFiles"

\* C15: a run that fails in validation, in the creation call or in readiness
\* polling returns success false with an error message and no upload result,
\* and no request for a file or for the README has been issued in it.
C15_EarlyFailureAborts ==
    /\ phase \in {"Validating", "Creating", "AwaitingReady"} =>
          /\ upc = "idle"
          /\ fetched = {}
          /\ requests.readmeGet = 0 /\ requests.readmePut = 0
    /\ (phase = "Failed" /\ upc = "idle") =>
          /\ ~runResult.success
          /\ runResult.error \in ValidationErrors \cup {"api", "timeout"}
          /\ runResult.uploadResults = <<>>
          /\ fetched = {}
          /\ requests.readmeGet = 0 /\ requests.readmePut = 0

C15_Witness ==
    /\ phase = "Failed"
    /\ upc = "idle"
    /\ runResult.error = "api"
    /\ runResult.status = 401
    /\ requests.notFound = 1

\* C16: once the probe has succeeded after k answers 404, exactly k + 1
\* probes have been issued and the loop has waited k times, the poll interval
\* each time; while the loop sleeps its timer is at most the poll interval.
C16_ReadyAfterPolls ==
    /\ rpc = "pollDelay" => runTimer <= PollInterval
    /\ requests.pollWaits = requests.notFound
    /\ requests.waitedMs = requests.notFound * PollInterval
    /\ upc # "idle" =>
          /\ phase \notin {"Validating", "Creating", "AwaitingReady"}
          /\ requests.probe = requests.notFound + 1

C16_Witness ==
    /\ phase = "Uploading"
    /\ requests.notFound = 3
    /\ requests.probe = 4
    /\ requests.waitedMs = 3 * PollInterval

\* C17: the loop of waitForRepositoryReady begins no probe once maxWaitTime
\* has elapsed but ends the run in Failed with the timeout error; it issues at
\* most maxWaitTime / poll interval probes, and a run whose probes were all
\* answered 404 never reaches Uploading.
C17_PollingTimesOut ==
    /\ [](/\ requests.probe <= MaxWaitTime \div PollInterval
          /\ requests.probe = requests.notFound => upc = "idle"
          /\ runResult.error = "timeout" =>
                /\ phase = "Failed"
                /\ upc = "idle"
                /\ requests.probe = requests.notFound
                /\ requests.waitedMs >= PollInterval)
    /\ [][(rpc = "pollDelay" /\ rpc' # "pollDelay" /\ elapsed >= MaxWaitTime) =>
             (phase' = "Failed" /\ runResult'.error = "timeout" /\ requests' = requests)]_vars

C17_Witness ==
    /\ phase = "Failed"
    /\ runResult.error = "timeout"
    /\ requests.probe = MaxWaitTime \div PollInterval

\* C18: a run in which creation and readiness succeeded returns success true
\* with the upload results, whose failedCount is the number of files that
\* failed, however many files failed.
C18_UploadFailuresNeverFailRun ==
    (phase \in Ended /\ upc # "idle") =>
        /\ runResult.success
        /\ Len(runResult.uploadResults) = 1
        /\ runResult.uploadResults[1].failedCount = Cardinality(Rejected)

\* C19: once the README upload has succeeded or failed, the run is Completed
\* with success true and the upload results.
C19_ReadmeFailureNotFatal ==
    readme.pc \in {"fulfilled", "rejected"} =>
        /\ phase = "Completed"
        /\ runResult = Success(results)

\* C20: the README lookup and PUT are issued at most once each, only after
\* the last batch was recorded; the PUT follows the lookup and carries the sha
\* exactly when the lookup found README.md; with createReadme false the README
\* flow is never started.
C20_ReadmeOnceAfterBatches ==
    /\ requests.readmeGet <= 1
    /\ requests.readmePut <= requests.readmeGet
    /\ readme.pc # "new" =>
          /\ options.createReadme
          /\ upc = "return"
          /\ i = Len(batches)
          /\ \A p \in DOMAIN task : task[p].pc \in TerminalPcs
          /\ Len(results.details) = Len(filteredFiles)
    /\ readme.pc \in {"limitPut", "fetchPut"} =>
          /\ readme.lookup \in {200, 404}
          /\ readme.sha = (readme.lookup = 200)
    /\ readme.pc = "new" => (requests.readmeGet = 0 /\ requests.readmePut = 0)
    /\ ~options.createReadme => readme = NewTask

C20_Witness ==
    /\ requests.readmePut = 1
    /\ readme.pc = "fetchPut"
    /\ readme.sha
    /\ Len(batches) = 2
    /\ results.failedCount = 1

\* C22: a request of an upload attempt (lookup or PUT, first attempt or
\* retry) goes out in the step in which an enforceRateLimit of its flow
\* completes: lastRequestTime is set to the time of that step.
C22_AcquireBeforeRequest ==
    [][\A p \in DOMAIN task' :
          (/\ p \in DOMAIN task
           /\ task'[p].pc \in {"fetchGet", "fetchPut"}
           /\ task'[p].pc # task[p].pc) =>
              /\ timeSinceLastRequest' = 0
              /\ lastGap' = timeSinceLastRequest
              /\ p \in fetched']_vars

C22_Witness ==
    \E p \in DOMAIN task :
        /\ task[p].attempt = 2
        /\ task[p].pc = "fetchPut"
        /\ task[p].lookup = 404
        /\ timeSinceLastRequest = 0

\* C21: every run ends in Completed or Failed, and every wait in it is one of
\* the fixed delays (rate limit, backoff, pause between batches, poll
\* interval) or is cut off by the readiness timeout.
C21_RunTerminates ==
    /\ [](/\ runTimer <= PollInterval \/ runTimer <= rateLimitDelay
          /\ pauseTimer <= rateLimitDelay
          /\ readme.timer <= rateLimitDelay
          /\ elapsed <= MaxWaitTime
          /\ \A p \in DOMAIN task :
                task[p].timer <= (IF task[p].pc = "backoff"
                                  THEN retryDelay * Pow2(maxRetries - 2)
                                  ELSE rateLimitDelay))
    /\ <>(phase \in Ended)

C21_Witness ==
    /\ phase = "Completed"
    /\ requests.notFound = 1
    /\ Len(batches) = 2
    /\ \E p \in DOMAIN task : task[p].pc = "rejected"
    /\ readme.pc = "fulfilled"

\* --------------------------------------------------------- ZipProcessor
NameComputed == zpc \in {"loading", "decoding", "returned", "github"}

IdentifierChars == {"a", "b", "z", "i", "p", "7", "-", "_"}

EndsWithDotZip(name) ==
    /\ Len(name) >= 4
    /\ toLowerCase(SubSeq(name, Len(name) - 3, Len(name))) = DotZip

ExtractionOver == zpc \in {"returned", "github"} \/ zipResult.error = "processing"

FileEntries == {k \in 1..Len(archive.entries) : ~archive.entries[k].dir}

Decoded == {k \in 1..Len(zipCalls.decode) : zipCalls.decode[k].decoded}

Missing == [type |-> "missing"]

RECURSIVE NodeAt(_, _)
NodeAt(level, parts) ==
    IF parts[1] \notin DOMAIN level THEN Missing
    ELSE IF Len(parts) = 1 THEN level[parts[1]]
    ELSE IF level[parts[1]].type = "directory"
         THEN NodeAt(level[parts[1]].children, Tail(parts))
         ELSE Missing

IsUnder(file, dir) ==
    Len(file.path) > Len(dir) /\ SubSeq(file.path, 1, Len(dir)) = dir

RECURSIVE SizeUnder(_, _, _)
SizeUnder(fs, dir, k) ==
    IF k > Len(fs) THEN 0
    ELSE (IF IsUnder(fs[k], dir) THEN fs[k].size ELSE 0) + SizeUnder(fs, dir, k + 1)

TreeOf(fs, tree) ==
    \A k \in 1..Len(fs) :
        /\ NodeAt(tree, fs[k].path).type = "file"
        /\ \A n \in 1..(Len(fs[k].path) - 1) :
              LET dir == SubSeq(fs[k].path, 1, n)
                  node == NodeAt(tree, dir)
              IN /\ node.type = "directory"
                 /\ node.fileCount = Cardinality({j \in 1..Len(fs) : IsUnder(fs[j], dir)})
                 /\ node.totalSize = SizeUnder(fs, dir, 1)

RECURSIVE DecodedSize(_)
DecodedSize(k) ==
    IF k > Len(zipCalls.decode) THEN 0
    ELSE (IF zipCalls.decode[k].decoded
          THEN archive.entries[zipCalls.decode[k].entry].size ELSE 0) + DecodedSize(k + 1)

\* C23: generateFolderName applied to a name it returned returns that name.
C23_SanitizeIdempotent ==
    NameComputed => generateFolderName(zipResult.folderName) = zipResult.folderName

C23_Witness ==
    /\ zpc = "returned"
    /\ archive.name = <<"-", "B", " ">> \o <<".", "Z", "i", "P">>
    /\ zipResult.folderName = <<"b">>

\* C24: the folder name processZipFile goes on with is not empty, has at most
\* 100 characters and only characters of [a-z0-9_-].
C24_SanitizedNameValid ==
    NameComputed =>
        /\ Len(zipResult.folderName) >= 1
        /\ Len(zipResult.folderName) <= MaxNameLength
        /\ \A k \in 1..Len(zipResult.folderName) :
              zipResult.folderName[k] \in IdentifierChars

C26_TreeCounts ==
    ExtractionOver =>
        /\ zipResult.success
        /\ TreeOf(extractedFiles, zipResult.fileStructure)

C28_FailsOnlyOnContainer ==
    (zpc \in {"thrown", "failed"} /\ zipCalls.load > 0) => zipResult.error = "container"

\* C29: the statistics of a result have totalFiles equal to the number of
\* records and totalSize equal to the sum of the sizes of the decoded entries.
C29_StatisticsTotals ==
    zipResult.success =>
        /\ zipResult.statistics.totalFiles = Len(extractedFiles)
        /\ zipResult.statistics.totalFiles = Cardinality(Decoded)
        /\ zipResult.statistics.totalSize = DecodedSize(1)

C29_Witness ==
    /\ zipResult.success
    /\ zipResult.statistics.totalFiles = 3
    /\ zipResult.statistics.totalSize = 20

\* C30: compressionRatio is 0 when totalSize is 0, and otherwise the integer
\* nearest to (1 - totalCompressedSize / totalSize) * 100, a half rounded up.
C30_CompressionRatio ==
    zipResult.success =>
        LET t == zipResult.statistics.totalSize
            c == zipResult.statistics.totalCompressedSize
            r == zipResult.statistics.compressionRatio
        IN /\ t = 0 => r = 0
           /\ t > 0 => /\ 2 * t * r - t <= 200 * (t - c)
                        /\ 200 * (t - c) < 2 * t * r + t

C30_Witness ==
    /\ zipResult.success
    /\ zipResult.statistics.totalSize = 8
    /\ zipResult.statistics.totalCompressedSize = 9
    /\ zipResult.statistics.compressionRatio = -12

\* ------------------------------------------------ the upload engine, again
\* the batch being uploaded, <<>> when none is
RunningBatch == IF upc \in {"map", "join"} THEN batches[i + 1] ELSE <<>>

\* the number of batches processBatch has recorded
Recorded ==
    CASE upc = "pause" -> i + 1
      [] upc \in {"map", "join", "return"} -> i
      [] OTHER -> 0

RECURSIVE SuccessSize(_)
SuccessSize(k) ==
    IF k > Len(results.details) THEN 0
    ELSE (IF results.details[k].status = "success" THEN filteredFiles[k].size ELSE 0)
         + SuccessSize(k + 1)

\* C31: while the uploads of a batch are running, a step changes neither the
\* results nor the lists, the options or the loop index; the results change
\* only in the step of the controlling flow that finds every upload of the
\* batch settled (or when a call begins).
C31_ResultsWrittenAfterBatch ==
    [][/\ (upc = "join" /\ upc' = "join") =>
             UNCHANGED <<results, files, filteredFiles, batches, i, options, config>>
       /\ results' # results =>
             \/ upc = "call"
             \/ /\ upc = "join"
                /\ upc' \in {"pause", "return"}
                /\ \A k \in 1..Len(batches[i + 1]) :
                      task[batches[i + 1][k].path].pc \in TerminalPcs
                /\ Len(results'.details) = Len(results.details) + Len(batches[i + 1])]_vars

C31_Witness ==
    /\ upc = "join"
    /\ Len(RunningBatch) = 2
    /\ task[RunningBatch[1].path].pc = "fetchPut"
    /\ task[RunningBatch[2].path].pc = "fulfilled"
    /\ timeSinceLastRequest = 0
    /\ results.details = <<>>

\* C32: with checkExisting, an attempt begins with no sha and no lookup
\* answer left from the attempt before; its PUT is issued only after its own
\* lookup was answered 200 or 404, with the sha exactly when that answer was
\* 200, a retry after a PUT included.
C32_RetryLooksUpAgain ==
    /\ [](options.checkExisting =>
            \A p \in DOMAIN task :
               task[p].pc \in {"backoff", "limitUpload", "limitGet", "fetchGet"} =>
                  (task[p].lookup = 0 /\ ~task[p].sha))
    /\ [][options.checkExisting =>
            \A p \in DOMAIN task \cap DOMAIN task' :
               (task'[p].pc = "fetchPut" /\ task[p].pc # "fetchPut") =>
                  /\ task[p].pc \in {"fetchGet", "limitPut"}
                  /\ task'[p].attempt = task[p].attempt
                  /\ task'[p].lookup \in {200, 404}
                  /\ task'[p].sha = (task'[p].lookup = 200)]_vars

C32_Witness ==
    /\ options.checkExisting
    /\ \E p \in DOMAIN task :
          /\ task[p].attempt = 2
          /\ task[p].lastError.attempt = 1
          /\ task[p].pc = "fetchPut"
          /\ task[p].lookup = 200
          /\ task[p].sha

\* C33: when the lookup is answered with an error other than 404, the
\* attempt issues no PUT and the error goes to the catch of the retry loop
\* (backoff, or rejection after the last attempt); a PUT is issued only
\* after a lookup that did not throw, and a file rejected after its last
\* attempt is recorded as failed.
C33_LookupErrorFailsAttempt ==
    /\ [][\A p \in DOMAIN task \cap DOMAIN task' :
            (task[p].pc = "fetchGet" /\ task'[p].pc \notin {"fetchGet", "limitPut", "fetchPut"}) =>
               /\ task'[p].pc = IF task[p].attempt < maxRetries THEN "backoff" ELSE "rejected"
               /\ task'[p].lastError.status \in ErrorStatuses
               /\ task'[p].lastError.attempt = task[p].attempt
               /\ task'[p].lookup = 0
               /\ fetched' = fetched]_vars
    /\ [](\A p \in DOMAIN task :
            /\ task[p].pc \in {"limitPut", "fetchPut"} /\ options.checkExisting =>
                  task[p].lookup \in {200, 404}
            /\ (task[p].pc = "rejected" /\ task[p].attempt > 0) =>
                  /\ task[p].attempt = maxRetries
                  /\ task[p].reason.status \in ErrorStatuses)
    /\ [](\A k \in 1..Len(results.details) :
            /\ results.details[k].status \in {"success", "failed"}
            /\ results.details[k].status = "failed"
                  <=> task[results.details[k].path].pc = "rejected")

C33_Witness ==
    /\ options.checkExisting
    /\ maxRetries = 1
    /\ \E p \in DOMAIN task :
          /\ task[p].pc = "rejected"
          /\ task[p].attempt = 1
          /\ task[p].lookup = 0
          /\ task[p].reason.status = 401

\* C34: the delay between batches is entered from processBatch's return
\* after a batch that is not the last, with rateLimitDelay ms to run; the
\* next batch starts only when it is over; the return follows the last
\* batch with no delay; no such delay is pending at any other time.
C34_PauseBetweenBatches ==
    /\ [](/\ upc # "pause" => pauseTimer = 0
          /\ upc = "pause" => (i < Len(batches) - 1 /\ pauseTimer <= rateLimitDelay)
          /\ upc = "return" => i = Len(batches))
    /\ [][/\ (upc # "pause" /\ upc' = "pause") =>
                (upc = "join" /\ pauseTimer' = rateLimitDelay /\ i' = i)
          /\ (upc = "pause" /\ upc' # "pause") =>
                (pauseTimer = 0 /\ upc' = "map" /\ i' = i + 1)
          /\ (upc = "join" /\ upc' # "join") => upc' \in {"pause", "return"}
          /\ (upc' = "map" /\ upc # "map") => upc \in {"call", "pause"}
          /\ (upc' = "return" /\ upc = "join") => i' = Len(batches)]_vars

C34_Witness ==
    /\ upc = "pause"
    /\ Len(batches) = 3
    /\ i = 1
    /\ pauseTimer = rateLimitDelay

\* C35: after every processBatch and at return, details has one entry for
\* each file of the batches recorded, in their order, and for no other; the
\* three counts add up to its length; totalSize is the sum of the sizes of
\* the files recorded as success; an entry has an error exactly when its
\* status is failed.
C35_ResultsConsistent ==
    /\ Len(results.details) = Len(Flatten(SubSeq(batches, 1, Recorded)))
    /\ \A k \in 1..Len(results.details) :
          /\ results.details[k].path = Flatten(SubSeq(batches, 1, Recorded))[k].path
          /\ results.details[k].status \in {"success", "failed", "skipped"}
          /\ ("error" \in DOMAIN results.details[k]) <=> results.details[k].status = "failed"
    /\ \A k, m \in 1..Len(results.details) :
          results.details[k].path = results.details[m].path => k = m
    /\ results.successCount + results.failedCount + results.skippedCount
          = Len(results.details)
    /\ results.successCount
          = Cardinality({k \in 1..Len(results.details) : results.details[k].status = "success"})
    /\ results.totalSize = SuccessSize(1)

C35_Witness ==
    /\ upc = "pause"
    /\ Len(results.details) = 2
    /\ results.details[1].status = "failed"
    /\ results.details[2].status = "success"
    /\ results.totalSize = filteredFiles[2].size
    /\ results.totalSize > 0

\* C36: the array the caller passed holds the same records in the same order
\* at every moment of the call and after it.
C36_CallerListUnchanged == files = SubSeq(Catalog, 1, Len(files))

\* C37: a probe answered with an error other than 404 ends the run in Failed
\* with that error: the catch has returned, no probe and no wait came after
\* it, and the error is not the timeout.
C37_ProbeErrorEndsPolling ==
    requests.lastProbe \notin {0, 200, 404} =>
        /\ phase = "Failed"
        /\ rpc = "returned"
        /\ runResult = Failure("api", requests.lastProbe)
        /\ runTimer = 0
        /\ upc = "idle"
        /\ requests.probe = requests.notFound + 1
        /\ requests.pollWaits = requests.notFound
        /\ requests.readmeGet = 0 /\ requests.readmePut = 0

C37_Witness ==
    /\ requests.lastProbe = 429
    /\ requests.notFound = 2
    /\ requests.probe = 3
    /\ phase = "Failed"

\* C38: a call of uploadSingleFileWithRetry has waited one backoff delay for
\* each failed attempt but the last: a flow in its attempt a has waited
\* a - 1 delays; it sleeps in the a-th only when a < maxRetries; a rejected
\* or fulfilled flow has waited a - 1 and has no timer pending.
C38_BackoffOnlyBetweenAttempts ==
    \A p \in DOMAIN task :
        task[p].attempt > 0 =>
            /\ task[p].pc = "backoff" =>
                  /\ task[p].attempt < maxRetries
                  /\ Len(task[p].delays) = task[p].attempt
                  /\ task[p].timer <= task[p].delays[task[p].attempt]
            /\ task[p].pc # "backoff" => Len(task[p].delays) = task[p].attempt - 1
            /\ task[p].pc \in TerminalPcs => task[p].timer = 0
            /\ task[p].pc = "rejected" => task[p].attempt = maxRetries

C38_Witness ==
    /\ maxRetries = 3
    /\ \E p \in DOMAIN task :
          /\ task[p].pc = "rejected"
          /\ task[p].attempt = 3
          /\ task[p].delays = <<retryDelay, 2 * retryDelay>>
          /\ task[p].timer = 0

\* ------------------------------------------------------- processWorkflow
\* C39: processWorkflow never throws: it returns success false with an error
\* after every failure of the input, of the validation, of processZipFile
\* and of createRepositoryAndUploadFiles; it returns success true only when
\* both reported success; no request is issued and no run begun unless
\* processZipFile returned success.
C39_WorkflowAlwaysReturns ==
    /\ zpc \notin {"thrown", "returned", "direct"}
    /\ upc # "throw"
    /\ workflowResult.returned <=> zpc \in {"done", "failed"}
    /\ zpc = "failed" =>
          /\ ~workflowResult.success
          /\ workflowResult.error # "undefined"
    /\ workflowResult.success =>
          /\ zpc = "done"
          /\ zipResult.success
          /\ runResult.success
          /\ rpc = "returned"
    /\ (archive.input # "data" \/ archive.size > MaxArchiveSize
          \/ ~EndsWithDotZip(archive.name)) => zpc \in {"workflow", "failed"}
    /\ zipResult.error # "undefined" => zpc = "failed"
    /\ (rpc = "returned" /\ ~runResult.success) => zpc \in {"publishing", "failed"}
    /\ (requests # NoRequests \/ fetched # {} \/ phase # "None" \/ upc # "idle") =>
          /\ zipResult.success
          /\ zpc \in {"publishing", "done", "failed"}

C39_Witness ==
    /\ zpc = "failed"
    /\ zipResult.success
    /\ workflowResult = WorkflowFailure("github")
    /\ results.successCount = 1
    /\ results.failedCount = 1
    /\ requests.readmePut = 1

====
